---- MODULE Spec2Model ----
(***************************************************************************)
(* Model of the AI image generator service: the prompt classifier and      *)
(* palette selector of create_ai_image (test_app.py) and of                *)
(* create_dragon_forest_image (main.py), the two /generate pipelines       *)
(* (test_app.py generate, and app.py generate -> main.py execute), and the *)
(* two memory stores (ChromaMemoryManager, MemoryManager).                 *)
(*                                                                         *)
(* Python strings are TLA+ strings; Len, \o and SubSeq act on them as on   *)
(* sequences of characters.                                                *)
(***************************************************************************)
EXTENDS Integers, Sequences, FiniteSets, TLC

VARIABLES
    arg,          \* classifier harness: the prompt value handed to the renderer
    ret,          \* classifier harness: what the renderer's classification gave
    now,          \* int(time.time()): the wall clock in whole seconds
    rng,          \* state of the process-wide `random` generator (never seeded by the code)
    collection,   \* ChromaDB collection "dragon_memory": rows in insertion order
    memory,       \* SQLite table memory: rows in rowid order
    short_term,   \* MemoryManager.short_term: memory_id -> record
    files,        \* the output directory: file name -> content
    last,         \* the last operation performed, with its inputs and its result
    history,      \* the renders performed so far, oldest first
    inflight      \* the generate requests being handled, each with its position

vars == <<arg, ret, now, rng, collection, memory, short_term, files, last, history, inflight>>

(***************************************************************************)
(* Bounds                                                                  *)
(***************************************************************************)
MaxWords == 2
MaxTime == 2
MaxOps == 2
RngMod == 4
MaxLimit == 2

(***************************************************************************)
(* Python string primitives                                                *)
(***************************************************************************)
\* `k in s`
Contains(s, k) ==
    \E i \in 1..(Len(s) - Len(k) + 1) : SubSeq(s, i, i + Len(k) - 1) = k

UpperChars == "ABCDEFGHIJKLMNOPQRSTUVWXYZ"
LowerChars == "abcdefghijklmnopqrstuvwxyz"

\* upper-case letter -> lower-case letter
LowerOf ==
    [c \in { SubSeq(UpperChars, i, i) : i \in 1..Len(UpperChars) } |->
        LET i == CHOOSE j \in 1..Len(UpperChars) : SubSeq(UpperChars, j, j) = c
        IN  SubSeq(LowerChars, i, i)]

LowerChar(c) == IF c \in DOMAIN LowerOf THEN LowerOf[c] ELSE c

RECURSIVE Lower(_)
\* str.lower()
Lower(s) ==
    IF Len(s) = 0 THEN ""
    ELSE IF Len(s) = 1 THEN LowerChar(s)
    ELSE LET h == Len(s) \div 2
         IN  Lower(SubSeq(s, 1, h)) \o Lower(SubSeq(s, h + 1, Len(s)))

\* any(keyword in s for keyword in keywords)
AnyIn(keywords, s) == \E k \in keywords : Contains(s, k)

(***************************************************************************)
(* More Python string primitives                                           *)
(***************************************************************************)
IsSpace(c) == c \in { " ", "\t", "\n", "\r" }

RECURSIVE LStrip(_)
LStrip(s) ==
    IF Len(s) > 0 /\ IsSpace(SubSeq(s, 1, 1)) THEN LStrip(SubSeq(s, 2, Len(s))) ELSE s

RECURSIVE RStrip(_)
RStrip(s) ==
    IF Len(s) > 0 /\ IsSpace(SubSeq(s, Len(s), Len(s)))
    THEN RStrip(SubSeq(s, 1, Len(s) - 1)) ELSE s

\* str.strip()
Strip(s) == RStrip(LStrip(s))

\* length of the first whitespace-free run of s (s does not start with a space)
RECURSIVE WordLen(_)
WordLen(s) ==
    IF Len(s) = 0 \/ IsSpace(SubSeq(s, 1, 1)) THEN 0
    ELSE 1 + WordLen(SubSeq(s, 2, Len(s)))

RECURSIVE Split(_)
\* str.split(): the whitespace-separated words, in order
Split(s) ==
    LET t == LStrip(s) IN
    IF Len(t) = 0 THEN <<>>
    ELSE LET n == WordLen(t)
         IN  <<SubSeq(t, 1, n)>> \o Split(SubSeq(t, n + 1, Len(t)))

\* s.split(sep, 1)[0] for a sep that occurs in s: the part before its first occurrence
Before(s, sep) ==
    LET i == CHOOSE j \in 1..(Len(s) - Len(sep) + 1) :
                 /\ SubSeq(s, j, j + Len(sep) - 1) = sep
                 /\ \A h \in 1..(j - 1) : SubSeq(s, h, h + Len(sep) - 1) # sep
    IN  SubSeq(s, 1, i - 1)

RECURSIVE Join(_, _)
\* sep.join(words)
Join(words, sep) ==
    IF Len(words) = 0 THEN ""
    ELSE IF Len(words) = 1 THEN words[1]
    ELSE words[1] \o sep \o Join(Tail(words), sep)

RECURSIVE LongWordsLower(_)
\* [word.lower() for word in words if len(word) > 3]
LongWordsLower(words) ==
    IF Len(words) = 0 THEN <<>>
    ELSE (IF Len(words[1]) > 3 THEN <<Lower(words[1])>> ELSE <<>>)
         \o LongWordsLower(Tail(words))

\* os.path.basename
RECURSIVE Basename(_)
Basename(path) ==
    IF Contains(path, "/") THEN Basename(SubSeq(path, Len(Before(path, "/")) + 2, Len(path)))
    ELSE path

(***************************************************************************)
(* json.dumps / json.loads of a list of strings                            *)
(***************************************************************************)
RECURSIVE JsonEscape(_)
JsonEscape(s) ==
    IF Len(s) = 0 THEN ""
    ELSE LET c == SubSeq(s, 1, 1)
         IN  (IF c = "\"" THEN "\\\"" ELSE IF c = "\\" THEN "\\\\" ELSE c)
             \o JsonEscape(SubSeq(s, 2, Len(s)))

Quoted(s) == "\"" \o JsonEscape(s) \o "\""

RECURSIVE QuotedAll(_)
QuotedAll(tags) ==
    IF Len(tags) = 0 THEN <<>> ELSE <<Quoted(tags[1])>> \o QuotedAll(Tail(tags))

\* json.dumps(tags)
JsonDumps(tags) == "[" \o Join(QuotedAll(tags), ", ") \o "]"

\* reads one JSON string literal whose opening quote has been consumed:
\* <<the string's value, the text after its closing quote>>
RECURSIVE JsonString(_, _)
JsonString(s, acc) ==
    LET c == SubSeq(s, 1, 1) IN
    IF c = "\"" THEN <<acc, SubSeq(s, 2, Len(s))>>
    ELSE IF c = "\\" THEN JsonString(SubSeq(s, 3, Len(s)), acc \o SubSeq(s, 2, 2))
    ELSE JsonString(SubSeq(s, 2, Len(s)), acc \o c)

RECURSIVE JsonItems(_)
JsonItems(s) ==
    LET t == LStrip(s) IN
    IF Len(t) = 0 \/ SubSeq(t, 1, 1) = "]" THEN <<>>
    ELSE IF SubSeq(t, 1, 1) = "," THEN JsonItems(SubSeq(t, 2, Len(t)))
    ELSE LET r == JsonString(SubSeq(t, 2, Len(t)), "")
         IN  <<r[1]>> \o JsonItems(r[2])

\* json.loads(text) for the text of a list of strings
JsonLoads(text) == JsonItems(SubSeq(text, 2, Len(text)))

(***************************************************************************)
(* Prompt values.  A JSON request body carries any JSON value under        *)
(* 'prompt'; kind "str" is a string, kind "num" a number (no str methods). *)
(***************************************************************************)
Str(s) == [kind |-> "str", text |-> s]
NonStr == [kind |-> "num", text |-> "42"]

Vocabulary ==
    { "dragon", "Drake", "wyvern", "serpent", "robot", "city", "space",
      "green", "emerald", "blue", "ice", "sapphire", "gold", "fire", "a" }

ExamplePrompts ==
    { "a blue ice dragon breathing fire",
      "a dragon in a city",
      "A green dragon in a magical forest",
      "A blue robot with glowing eyes",
      "A futuristic city at night with neon lights",
      "A ringed planet in space with stars",
      "mech android machine",
      "urban metropolis building",
      "galaxy star",
      "police station",
      "yellow black dark white silver",
      "purple violet amethyst orange amber pink rose",
      "quiet meadow",
      "" }

RECURSIVE Phrases(_)
\* the phrases of 1..n vocabulary words joined by single spaces
Phrases(n) ==
    IF n = 0 THEN {}
    ELSE IF n = 1 THEN Vocabulary
    ELSE Phrases(n - 1) \cup { p \o " " \o w : p \in Phrases(n - 1), w \in Vocabulary }

PromptStrings == ExamplePrompts \cup Phrases(MaxWords)
PromptValues == { Str(s) : s \in PromptStrings } \cup { NonStr }

(***************************************************************************)
(* create_ai_image (test_app.py): scene type, sky tone, palette            *)
(***************************************************************************)
\* a dragon keyword list without "dragon"
DragonKeywords_no_dragon == { "drake", "wyvern", "serpent" }

DragonKeywords == { "dragon", "drake", "wyvern", "serpent" }
RobotKeywords == { "robot", "mech", "android", "machine" }
CityKeywords == { "city", "urban", "metropolis", "building" }
SpaceKeywords == { "space", "galaxy", "planet", "star" }

\* image_type with the city keywords tested before the dragon keywords
image_type_city_first(prompt_lower) ==
    IF AnyIn(CityKeywords, prompt_lower) THEN "city"
    ELSE IF AnyIn(DragonKeywords, prompt_lower) THEN "dragon"
    ELSE IF AnyIn(RobotKeywords, prompt_lower) THEN "robot"
    ELSE IF AnyIn(SpaceKeywords, prompt_lower) THEN "space"
    ELSE "landscape"

image_type(prompt_lower) ==
    IF AnyIn(DragonKeywords, prompt_lower) THEN "dragon"
    ELSE IF AnyIn(RobotKeywords, prompt_lower) THEN "robot"
    ELSE IF AnyIn(CityKeywords, prompt_lower) THEN "city"
    ELSE IF AnyIn(SpaceKeywords, prompt_lower) THEN "space"
    ELSE "landscape"

Red == <<180, 30, 30>>
Green == <<30, 150, 30>>
Blue == <<30, 30, 180>>
Golden == <<200, 180, 30>>
Dark == <<20, 20, 20>>
White == <<200, 200, 220>>
Purple == <<120, 30, 160>>
Orange == <<220, 120, 30>>
Pink == <<220, 120, 180>>

main_color(prompt_lower) ==
    IF Contains(prompt_lower, "green") \/ Contains(prompt_lower, "emerald") THEN Green
    ELSE IF Contains(prompt_lower, "blue") \/ Contains(prompt_lower, "sapphire")
            \/ Contains(prompt_lower, "ice") THEN Blue
    ELSE IF Contains(prompt_lower, "gold") \/ Contains(prompt_lower, "yellow") THEN Golden
    ELSE IF Contains(prompt_lower, "black") \/ Contains(prompt_lower, "dark") THEN Dark
    ELSE IF Contains(prompt_lower, "white") \/ Contains(prompt_lower, "silver") THEN White
    ELSE IF Contains(prompt_lower, "purple") \/ Contains(prompt_lower, "violet")
            \/ Contains(prompt_lower, "amethyst") THEN Purple
    ELSE IF Contains(prompt_lower, "orange") \/ Contains(prompt_lower, "amber") THEN Orange
    ELSE IF Contains(prompt_lower, "pink") \/ Contains(prompt_lower, "rose") THEN Pink
    ELSE Red

(***************************************************************************)
(* create_dragon_forest_image (main.py): palette                           *)
(***************************************************************************)
dragon_color(prompt) ==
    LET l == Lower(prompt) IN
    IF Contains(l, "green") \/ Contains(l, "emerald") THEN Green
    ELSE IF Contains(l, "blue") \/ Contains(l, "ice") THEN Blue
    ELSE IF Contains(l, "gold") \/ Contains(l, "yellow") THEN Golden
    ELSE IF Contains(l, "black") \/ Contains(l, "dark") THEN Dark
    ELSE IF Contains(l, "white") \/ Contains(l, "silver") THEN White
    ELSE Red

(***************************************************************************)
(* The module-level `random` generator.  Python seeds it from OS entropy   *)
(* at import and the code never reseeds it; every draw advances it.  The   *)
(* Mersenne twister is represented by a small congruential generator.      *)
(***************************************************************************)
NextRng(s) == (5 * s + 3) % RngMod
\* random.random() > 0.5
CoinFlip(s) == 2 * s >= RngMod

(***************************************************************************)
(* The renderers.  An image is the record of what each stage painted; the  *)
(* random parameters of a stage are one draw of the generator, kept in     *)
(* draws in the order taken.  out.rng is the generator state afterwards.   *)
(***************************************************************************)
NoImage ==
    [raised |-> TRUE, image_type |-> "none", sky |-> "none", color |-> <<>>,
     magical |-> FALSE, dragon_figure |-> FALSE, flame |-> FALSE,
     subject |-> "none", rings |-> FALSE, caption |-> "", draws |-> <<>>]

\* the stages that draw random numbers, in order; s is the generator state.
\* Returns <<draws, flame, state after>>.
Stages(prompt_lower, subject, s) ==
    LET terrain == <<s>>
        s1 == NextRng(s)
        magic == Contains(prompt_lower, "magical") \/ Contains(prompt_lower, "magic")
        d2 == IF magic THEN terrain \o <<s1>> ELSE terrain
        s2 == IF magic THEN NextRng(s1) ELSE s1
        forced == Contains(prompt_lower, "fire")
        flame == forced \/ CoinFlip(s2)
        d3 == IF forced THEN d2 ELSE d2 \o <<s2>>
        s3 == IF forced THEN s2 ELSE NextRng(s2)
        d4 == IF flame THEN d3 \o <<s3>> ELSE d3
        s4 == IF flame THEN NextRng(s3) ELSE s3
        d5 == IF subject # "none" THEN d4 \o <<s4>> ELSE d4
        s5 == IF subject # "none" THEN NextRng(s4) ELSE s4
    IN  <<d5, flame, s5>>

\* test_app.py create_ai_image(prompt)
create_ai_image(prompt, s) ==
    IF prompt.kind # "str" THEN [img |-> NoImage, rng |-> s]
    ELSE
    LET prompt_lower == Lower(prompt.text)
        type == image_type(prompt_lower)
        sky == IF type = "space" THEN "space" ELSE IF type = "city" THEN "city" ELSE "standard"
        nodragon == ~Contains(prompt_lower, "dragon")
        subject == IF type = "space" /\ nodragon THEN "planet"
                   ELSE IF type = "city" /\ nodragon THEN "skyline"
                   ELSE IF type = "robot" /\ nodragon THEN "robot"
                   ELSE "none"
        st == Stages(prompt_lower, subject, s)
    IN  [img |-> [raised |-> FALSE, image_type |-> type, sky |-> sky,
                  color |-> main_color(prompt_lower),
                  magical |-> Contains(prompt_lower, "magical") \/ Contains(prompt_lower, "magic"),
                  dragon_figure |-> TRUE, flame |-> st[2], subject |-> subject,
                  rings |-> subject = "planet"
                            /\ (Contains(prompt_lower, "ring") \/ Contains(prompt_lower, "saturn")),
                  caption |-> "Prompt: " \o prompt.text, draws |-> st[1]],
         rng |-> st[3]]

\* main.py create_dragon_forest_image(prompt): no scene type, always the dragon
create_dragon_forest_image(prompt, s) ==
    IF prompt.kind # "str" THEN [img |-> NoImage, rng |-> s]
    ELSE
    LET prompt_lower == Lower(prompt.text)
        st == Stages(prompt_lower, "none", s)
    IN  [img |-> [raised |-> FALSE, image_type |-> "dragon", sky |-> "standard",
                  color |-> dragon_color(prompt.text),
                  magical |-> Contains(prompt_lower, "magical") \/ Contains(prompt_lower, "magic"),
                  dragon_figure |-> TRUE, flame |-> st[2], subject |-> "none",
                  rings |-> FALSE,
                  caption |-> "Prompt: " \o prompt.text, draws |-> st[1]],
         rng |-> st[3]]

(***************************************************************************)
(* Renderer harness: one call of a renderer on one prompt value.           *)
(***************************************************************************)
NoCall == [fn |-> "none", img |-> NoImage]

Idle ==
    /\ now = 0
    /\ collection = <<>>
    /\ memory = <<>>
    /\ short_term = <<>>
    /\ files = <<>>
    /\ last = [op |-> "none"]
    /\ history = <<>>
    /\ inflight = {}

InitRender ==
    /\ arg \in PromptValues
    /\ ret = NoCall
    /\ rng \in 0..(RngMod - 1)
    /\ Idle

CallCreateAiImage ==
    /\ ret.fn = "none"
    /\ LET out == create_ai_image(arg, rng)
       IN  /\ ret' = [fn |-> "create_ai_image", img |-> out.img]
           /\ rng' = out.rng
    /\ UNCHANGED <<inflight, arg, now, collection, memory, short_term, files, last, history>>

CallCreateDragonForestImage ==
    /\ ret.fn = "none"
    /\ LET out == create_dragon_forest_image(arg, rng)
       IN  /\ ret' = [fn |-> "create_dragon_forest_image", img |-> out.img]
           /\ rng' = out.rng
    /\ UNCHANGED <<inflight, arg, now, collection, memory, short_term, files, last, history>>

NextRender == CallCreateAiImage \/ CallCreateDragonForestImage

SpecRender == InitRender /\ [][NextRender]_vars

(***************************************************************************)
(* Claims on the classifier and the palette selector (SpecRender)          *)
(***************************************************************************)
Rendered(fn) == ret.fn = fn /\ ~ret.img.raised

HasGreen(l) == Contains(l, "green") \/ Contains(l, "emerald")
HasBlue(l) == Contains(l, "blue") \/ Contains(l, "ice") \/ Contains(l, "sapphire")
HasOtherColor(l) ==
    \E k \in { "gold", "yellow", "black", "dark", "white", "silver", "purple", "violet",
               "amethyst", "orange", "amber", "pink", "rose" } : Contains(l, k)

\* C5: in both renderers' palette selection, a prompt whose lower-cased text
\* contains "green" or "emerald" gets the green triple; one that contains
\* "blue", "ice" or "sapphire" (and, first match winning, no green keyword)
\* gets the blue triple; one with no palette keyword gets the red triple
\* (180, 30, 30).
C5_PaletteByKeyword ==
    (Rendered("create_ai_image") \/ Rendered("create_dragon_forest_image")) =>
        LET l == Lower(arg.text) IN
        /\ HasGreen(l) => ret.img.color = <<30, 150, 30>>
        /\ (~HasGreen(l) /\ HasBlue(l)) => ret.img.color = <<30, 30, 180>>
        /\ (~HasGreen(l) /\ ~HasBlue(l) /\ ~HasOtherColor(l)) => ret.img.color = <<180, 30, 30>>

\* C6: the scene type is the first category, in the order dragon, robot,
\* city, space, with a keyword in the lower-cased prompt, and landscape when
\* no category matches; a prompt with "dragon", "drake", "wyvern" or
\* "serpent" is dragon whatever else it contains ("a dragon in a city").
C6_SceneTypeFirstMatch ==
    Rendered("create_ai_image") =>
        LET l == Lower(arg.text)
            d == \E k \in { "dragon", "drake", "wyvern", "serpent" } : Contains(l, k)
            r == \E k \in { "robot", "mech", "android", "machine" } : Contains(l, k)
            c == \E k \in { "city", "urban", "metropolis", "building" } : Contains(l, k)
            p == \E k \in { "space", "galaxy", "planet", "star" } : Contains(l, k)
            t == ret.img.image_type
        IN  /\ d => t = "dragon"
            /\ (~d /\ r) => t = "robot"
            /\ (~d /\ ~r /\ c) => t = "city"
            /\ (~d /\ ~r /\ ~c /\ p) => t = "space"
            /\ (~d /\ ~r /\ ~c /\ ~p) => t = "landscape"

\* C6 witness: "a dragon in a city" has been classified, as dragon
C6_Witness ==
    /\ ret.fn = "create_ai_image"
    /\ arg = Str("a dragon in a city")
    /\ ret.img.image_type = "dragon"

\* C7: for every prompt value a request can carry, classification does not
\* raise and gives one of the five scene types and one palette triple.
C7_ClassifyTotal ==
    ret.fn = "create_ai_image" =>
        /\ ~ret.img.raised
        /\ ret.img.image_type \in { "dragon", "robot", "city", "space", "landscape" }
        /\ ret.img.color \in { Red, Green, Blue, Golden, Dark, White, Purple, Orange, Pink }

(***************************************************************************)
(* LocalLLM.generate (main.py)                                             *)
(***************************************************************************)
EnhDragon == "a majestic dragon with intricate scales, powerful wings outspread, standing on a rocky cliff overlooking a vast landscape, with dramatic sunset lighting creating golden highlights on its scales"
EnhRobot == "a sleek, futuristic robot with glowing LED details, metallic surface reflecting ambient light, detailed mechanical joints and panels, standing in a high-tech laboratory environment with subtle blue lighting"
EnhCity == "a sprawling cyberpunk cityscape with neon signs illuminating rain-slicked streets, towering skyscrapers with holographic advertisements, flying vehicles navigating between buildings, and crowds of people under a night sky filled with industrial haze"
EnhForest == "an enchanted forest with ancient trees covered in luminescent moss, shaft of golden sunlight filtering through the dense canopy, magical creatures hiding among colorful mushrooms, and a misty atmosphere creating depth and mystery"
EnhDragonForest == "a majestic dragon with emerald scales and golden eyes in an enchanted forest, surrounded by ancient trees with glowing moss, magical fireflies illuminating the scene, and a misty atmosphere creating depth with shafts of moonlight breaking through the dense canopy"
GenericSuffix == ", with highly detailed textures, dramatic lighting, cinematic composition, photo-realistic quality"

\* the enhancements dict, in insertion order
enhancements ==
    << <<"dragon", EnhDragon>>, <<"robot", EnhRobot>>, <<"city", EnhCity>>,
       <<"forest", EnhForest>>, <<"dragon forest", EnhDragonForest>>,
       <<"dragon in forest", EnhDragonForest>>, <<"magical forest", EnhForest>> >>

combined_keywords == <<"dragon forest", "dragon in forest", "magical forest">>

InSeq(x, xs) == \E i \in 1..Len(xs) : xs[i] = x

Enhancement(keyword) ==
    enhancements[CHOOSE i \in 1..Len(enhancements) : enhancements[i][1] = keyword][2]

\* a generate that tests the single keywords before the combinations
llm_generate_singles_first(prompt) ==
    LET l == Lower(prompt)
        singles == { i \in 1..Len(enhancements) : Contains(l, Lower(enhancements[i][1])) }
        Min(S) == CHOOSE i \in S : \A j \in S : i <= j
    IN  IF singles # {} THEN enhancements[Min(singles)][2]
        ELSE prompt \o GenericSuffix

\* LocalLLM.generate(prompt) for a string prompt
llm_generate(prompt) ==
    LET l == Lower(prompt)
        combos == { i \in 1..Len(combined_keywords) : Contains(l, Lower(combined_keywords[i])) }
        singles == { i \in 1..Len(enhancements) :
                        /\ Contains(l, Lower(enhancements[i][1]))
                        /\ ~InSeq(enhancements[i][1], combined_keywords) }
        Min(S) == CHOOSE i \in S : \A j \in S : i <= j
    IN  IF combos # {} THEN Enhancement(combined_keywords[Min(combos)])
        ELSE IF singles # {} THEN enhancements[Min(singles)][2]
        ELSE prompt \o GenericSuffix

(***************************************************************************)
(* ChromaMemoryManager (datastore/chroma_memory.py)                        *)
(***************************************************************************)
\* Clock readings.  A reading has a whole-second part t (what int(time.time())
\* gives, the value of now when it is taken) and an instant: the full
\* resolution value, which is different for, and grows with, every request.

\* collection.add: a row whose id is already in the collection is not added
\* (the client rejects or ignores it), the existing row is left as it is
CollectionAdd(coll, row) ==
    IF \E i \in 1..Len(coll) : coll[i].id = row.id THEN coll ELSE Append(coll, row)

\* the row ChromaMemoryManager.store builds at clock reading t
ChromaRow(prompt, expanded_prompt, image_path, model_path, tags, t, instant) ==
    [id |-> ToString(t),
     document |-> prompt \o " " \o expanded_prompt \o " " \o Join(tags, " "),
     timestamp |-> instant,
     prompt |-> prompt,
     expanded_prompt |-> expanded_prompt,
     image_path |-> image_path,
     model_path |-> model_path,
     tags |-> JsonDumps(tags)]

\* ChromaMemoryManager.store
chroma_store(coll, prompt, expanded_prompt, image_path, model_path, tags, t, instant) ==
    CollectionAdd(coll, ChromaRow(prompt, expanded_prompt, image_path, model_path, tags, t, instant))

\* the dict a read path builds from a row: {"id": id, **metadata}, tags parsed
Memory(row) ==
    [id |-> row.id, timestamp |-> row.timestamp, prompt |-> row.prompt,
     expanded_prompt |-> row.expanded_prompt, image_path |-> row.image_path,
     model_path |-> row.model_path, tags |-> JsonLoads(row.tags)]

RECURSIVE Memories(_)
Memories(rows) ==
    IF Len(rows) = 0 THEN <<>> ELSE <<Memory(rows[1])>> \o Memories(Tail(rows))

\* xs[:n]
Take(xs, n) == SubSeq(xs, 1, IF n < Len(xs) THEN n ELSE Len(xs))

\* insert m into a sequence sorted by timestamp, descending, after its equals
RECURSIVE InsertDesc(_, _)
InsertDesc(sorted, m) ==
    IF Len(sorted) = 0 THEN <<m>>
    ELSE IF sorted[1].timestamp >= m.timestamp
         THEN <<sorted[1]>> \o InsertDesc(Tail(sorted), m)
         ELSE <<m>> \o sorted

RECURSIVE SortedDesc(_)
\* sorted(ms, key=timestamp, reverse=True): stable
SortedDesc(ms) ==
    IF Len(ms) = 0 THEN <<>>
    ELSE InsertDesc(SortedDesc(SubSeq(ms, 1, Len(ms) - 1)), ms[Len(ms)])

\* a get_recent without the sort
chroma_get_recent_unsorted(coll, limit) ==
    Take(Memories(Take(coll, limit)), limit)

\* ChromaMemoryManager.get_recent: collection.get(limit=limit) hands back the
\* first `limit` rows of the collection; these are then sorted and cut
chroma_get_recent(coll, limit) ==
    Take(SortedDesc(Memories(Take(coll, limit))), limit)

\* the rows whose document contains the keyword (where_document $contains)
RECURSIVE Matching(_, _)
Matching(coll, keyword) ==
    IF Len(coll) = 0 THEN <<>>
    ELSE (IF Contains(coll[1].document, keyword) THEN <<coll[1]>> ELSE <<>>)
         \o Matching(Tail(coll), keyword)

\* the sequences of n distinct elements of the sequence xs, in any order
Arrangements(xs, n) ==
    { q \in [1..n -> 1..Len(xs)] : \A i, j \in 1..n : q[i] = q[j] => i = j }

\* ChromaMemoryManager.keyword_search: the possible results.  The query
\* returns the n_results matching rows nearest to the embedding of "", an
\* order the collection's embedding function decides.
chroma_keyword_search(coll, keyword, limit) ==
    LET m == Matching(coll, keyword)
        n == IF limit < Len(m) THEN limit ELSE Len(m)
    IN  { Memories([i \in 1..n |-> m[q[i]]]) : q \in Arrangements(m, n) }

(***************************************************************************)
(* MemoryManager (main.py): SQLite table memory and the session map        *)
(***************************************************************************)
RECURSIVE LikeMatch(_, _, _)
\* SQLite LIKE: pattern p matches the text s from position i to its end;
\* % is any run of characters, _ any one character
LikeMatch(p, s, i) ==
    IF Len(p) = 0 THEN i = Len(s) + 1
    ELSE IF p = "%" THEN TRUE
    ELSE LET c == SubSeq(p, 1, 1) IN
         IF c = "%"
         THEN \E j \in i..(Len(s) + 1) : LikeMatch(SubSeq(p, 2, Len(p)), s, j)
         ELSE /\ i <= Len(s)
              /\ (c = "_" \/ c = SubSeq(s, i, i))
              /\ LikeMatch(SubSeq(p, 2, Len(p)), s, i + 1)

\* column LIKE '%query%' (LIKE ignores ASCII case)
Like(column, query) == LikeMatch("%" \o Lower(query) \o "%", Lower(column), 1)

\* the record MemoryManager.store puts into short_term
SessionRecord(prompt, expanded_prompt, image_path, model_path, tags, instant) ==
    [timestamp |-> instant, prompt |-> prompt, expanded_prompt |-> expanded_prompt,
     image_path |-> image_path, model_path |-> model_path, tags |-> tags]

\* self.short_term[memory_id] = {...}
short_term_store(st, prompt, expanded_prompt, image_path, model_path, tags, t, instant) ==
    (t :> SessionRecord(prompt, expanded_prompt, image_path, model_path, tags, instant)) @@ st

\* INSERT INTO memory ...: id is the AUTOINCREMENT rowid
memory_insert(rows, prompt, expanded_prompt, image_path, model_path, tags, instant) ==
    Append(rows,
           [id |-> Len(rows) + 1, timestamp |-> instant, prompt |-> prompt,
            expanded_prompt |-> expanded_prompt, image_path |-> image_path,
            model_path |-> model_path, tags |-> JsonDumps(tags)])

RECURSIVE LikeRows(_, _)
LikeRows(rows, query) ==
    IF Len(rows) = 0 THEN <<>>
    ELSE (IF \/ Like(rows[1].prompt, query)
             \/ Like(rows[1].expanded_prompt, query)
             \/ Like(rows[1].tags, query)
          THEN <<rows[1]>> ELSE <<>>)
         \o LikeRows(Tail(rows), query)

\* MemoryManager.search(query)
memory_search(rows, query) == Memories(LikeRows(rows, query))

\* MemoryManager.get_recent(limit): ORDER BY timestamp DESC LIMIT limit
memory_get_recent(rows, limit) == Take(SortedDesc(Memories(rows)), limit)

(***************************************************************************)
(* extract_memory_references (main.py)                                     *)
(***************************************************************************)
reference_keywords ==
    <<"like the one", "similar to", "same as", "like I created", "like the", "like my">>

StopWords == { "like", "the", "one", "similar", "same", "created", "make", "generate" }

RECURSIVE potential_tags(_)
potential_tags(words) ==
    IF Len(words) = 0 THEN <<>>
    ELSE (IF Len(words[1]) > 3 /\ Lower(words[1]) \notin StopWords
          THEN <<words[1]>> ELSE <<>>)
         \o potential_tags(Tail(words))

\* the searches made for the tags, in order: <<tag, results>>
RECURSIVE Searches(_, _)
Searches(rows, tags) ==
    IF Len(tags) = 0 THEN <<>>
    ELSE << <<tags[1], memory_search(rows, tags[1])>> >> \o Searches(rows, Tail(tags))

RECURSIVE Extend(_)
\* matches.extend(results) over all searches
Extend(searches) ==
    IF Len(searches) = 0 THEN <<>> ELSE searches[1][2] \o Extend(Tail(searches))

\* max(matches, key=timestamp): the first of the matches with the largest timestamp
MaxByTimestamp(matches) ==
    matches[CHOOSE i \in 1..Len(matches) :
                /\ \A j \in 1..Len(matches) : matches[j].timestamp <= matches[i].timestamp
                /\ \A j \in 1..(i - 1) : matches[j].timestamp < matches[i].timestamp]

\* extract_memory_references(prompt) for a string prompt:
\* [clean, found, ref, searches]
extract_memory_references(rows, prompt) ==
    LET lower_prompt == Lower(prompt)
        hits == { i \in 1..Len(reference_keywords) : Contains(lower_prompt, reference_keywords[i]) }
        searches == IF hits = {} THEN <<>> ELSE Searches(rows, potential_tags(Split(prompt)))
        matches == Extend(searches)
        first == CHOOSE i \in hits : \A j \in hits : i <= j
    IN  IF hits # {} /\ Len(matches) > 0
        THEN [clean |-> Strip(Before(lower_prompt, reference_keywords[first])),
              found |-> TRUE, ref |-> MaxByTimestamp(matches).expanded_prompt,
              searches |-> searches]
        ELSE [clean |-> prompt, found |-> FALSE, ref |-> "", searches |-> searches]

(***************************************************************************)
(* The two /generate pipelines                                             *)
(***************************************************************************)
\* the JSON bodies a client posts: without 'prompt', or with a prompt value
SystemPromptValues ==
    { Str("a blue ice dragon breathing fire"), Str("city like the Dragon"), Str(""), NonStr }

Bodies ==
    { [has_prompt |-> FALSE, prompt |-> Str("")] }
    \cup { [has_prompt |-> TRUE, prompt |-> v] : v \in SystemPromptValues }

Keywords == { "dragon", "fire a", "DRAGON" }

OutputDir == "/app/output"

\* a mesh whose last vertex has left its corner
ObjTestApp_bent == "# Simple cube OBJ file\nv -1.0 -1.0 -1.0\nv -1.0 -1.0 1.0\nv -1.0 1.0 -1.0\nv -1.0 1.0 1.0\nv 1.0 -1.0 -1.0\nv 1.0 -1.0 1.0\nv 1.0 1.0 -1.0\nv 1.0 1.0 2.0\nf 1 3 7 5\nf 2 6 8 4\nf 1 5 6 2\nf 3 4 8 7\nf 1 2 4 3\nf 5 7 8 6"

\* the mesh text test_app.py's generate writes
ObjTestApp == "# Simple cube OBJ file\nv -1.0 -1.0 -1.0\nv -1.0 -1.0 1.0\nv -1.0 1.0 -1.0\nv -1.0 1.0 1.0\nv 1.0 -1.0 -1.0\nv 1.0 -1.0 1.0\nv 1.0 1.0 -1.0\nv 1.0 1.0 1.0\nf 1 3 7 5\nf 2 6 8 4\nf 1 5 6 2\nf 3 4 8 7\nf 1 2 4 3\nf 5 7 8 6"

\* the mesh bytes main.py's generate_image_to_3d returns
generate_image_to_3d == "\n# Simple cube OBJ file\nv -1.0 -1.0 -1.0\nv -1.0 -1.0 1.0\nv -1.0 1.0 -1.0\nv -1.0 1.0 1.0\nv 1.0 -1.0 -1.0\nv 1.0 -1.0 1.0\nv 1.0 1.0 -1.0\nv 1.0 1.0 1.0\nf 1 3 7 5\nf 2 6 8 4\nf 1 5 6 2\nf 3 4 8 7\nf 1 2 4 3\nf 5 7 8 6\n"

\* the title label of test_app.py's viewer page
image_type_label(prompt_lower) ==
    IF Contains(prompt_lower, "dragon") THEN "Dragon"
    ELSE IF Contains(prompt_lower, "robot") THEN "Robot"
    ELSE IF Contains(prompt_lower, "city") THEN "City"
    ELSE IF Contains(prompt_lower, "space") THEN "Space"
    ELSE "Image"

\* the whole seconds a handler that last read t can read next
Reads(t) == { u \in t..(t + 1) : u <= MaxTime }

ImageName(t) == "image_" \o ToString(t) \o ".png"
ModelName(t) == "model_" \o ToString(t) \o ".obj"
ViewName(t) == "view_" \o ToString(t) \o ".html"

\* a file written by request number req
File(req, img, text) == [req |-> req, img |-> img, text |-> text]

\* image.save(image_path) / open(image_path, 'wb').write(image_data)
WriteImage(dir, req, img, t) == (ImageName(t) :> File(req, img, "")) @@ dir

\* open(model_path, 'w').write(...)
WriteModel(dir, req, obj, t) == (ModelName(t) :> File(req, NoImage, obj)) @@ dir

\* a writer that leaves a file that is already there as it is
WriteArtifacts_keep(dir, req, img, obj, view, t) ==
    dir @@ (ImageName(t) :> File(req, img, "")) @@ (ModelName(t) :> File(req, NoImage, obj))
    @@ (ViewName(t) :> File(req, NoImage, view))

\* the three artifacts of one request, each written over what the name held
WriteArtifacts(dir, req, img, obj, view, t) ==
    (ImageName(t) :> File(req, img, "")) @@ (ModelName(t) :> File(req, NoImage, obj))
    @@ (ViewName(t) :> File(req, NoImage, view)) @@ dir

\* the step of a handler at which the environment raises an exception (a
\* failing PIL call, open() or write() on a full or read-only disk), if any
Faults == { "none", "draw", "write_mesh", "write_viewer" }

\* the generator states a renderer passes through; the state an exception
\* during drawing leaves behind is one of them
Interrupted(out) == { out.img.draws[i] : i \in 1..Len(out.img.draws) } \cup { out.rng }

NoFiles == [image |-> "", model |-> "", viewer |-> ""]
NoRow == [id |-> "", timestamp |-> 0, prompt |-> "", expanded_prompt |-> "",
          image_path |-> "", model_path |-> "", tags |-> <<>>]

\* Python's None, and what a function without a return statement returns
None == [kind |-> "None"]

\* the value ChromaMemoryManager.store hands back to its caller
chroma_store_return(row) == None

\* the value MemoryManager.store hands back to its caller
memory_store_return(row) == None

\* the app ids app.py's initialize_app configures for 'super-user'
app_ids ==
    << "f0997a01-d6d3-a5fe-53d8-561300318557.openfabric.network",
       "69543f29-4d41-4afc-7f29-3d51591f11eb.openfabric.network" >>

\* app_id.strip('/')
RECURSIVE StripSlashes(_)
StripSlashes(s) ==
    IF Len(s) > 0 /\ SubSeq(s, 1, 1) = "/" THEN StripSlashes(SubSeq(s, 2, Len(s)))
    ELSE IF Len(s) > 0 /\ SubSeq(s, Len(s), Len(s)) = "/" THEN StripSlashes(SubSeq(s, 1, Len(s) - 1))
    ELSE s

\* Stub.__init__(ids): the URLs it requests with requests.get whatever the
\* network answers, the manifest of every app (the two schema requests and the
\* web socket of an app follow when its manifest arrives)
stub_init(ids) == [i \in 1..Len(ids) |-> "https://" \o StripSlashes(ids[i]) \o "/manifest"]

\* the network requests of a generate request: execute builds a Stub once the
\* prompt has passed `if not user_prompt`; test_app.py's generate makes none
Network(pipeline, body) ==
    IF pipeline = "app" /\ body.has_prompt /\ body.prompt # Str("")
    THEN stub_init(app_ids) ELSE <<>>

\* what a handler leaves in last
Response(pipeline, req, body, status, resp_files, stored, row, searches, fault, store_ret) ==
    [op |-> "generate", pipeline |-> pipeline, req |-> req, body |-> body,
     status |-> status, files |-> resp_files, stored |-> stored, row |-> row,
     searches |-> searches, fault |-> fault, store_ret |-> store_ret,
     network |-> Network(pipeline, body)]

Rendering(pipeline, body, status, img) ==
    [pipeline |-> pipeline, prompt |-> body.prompt, status |-> status,
     success |-> (status = 200 /\ ~img.raised), img |-> img]

\* the number of the request being handled, which is also the instant of its
\* clock readings
Instant == Len(history) + 1

\* a request that ends before anything is rendered or written
Refuse(pipeline, body, status) ==
    /\ last' = Response(pipeline, 0, body, status, NoFiles, FALSE, NoRow, <<>>, "none", None)
    /\ UNCHANGED <<inflight, arg, ret, now, rng, collection, memory, short_term, files, history>>

\* a request that ends without a record and without files in its response,
\* after an exception at step fault: dir is the output directory it leaves
Fail(pipeline, body, status, fault, img, dir, t) ==
    /\ last' = Response(pipeline, Instant, body, status, NoFiles, FALSE, NoRow, <<>>, fault, None)
    /\ history' = Append(history, Rendering(pipeline, body, status, img))
    /\ files' = dir
    /\ now' = t
    /\ UNCHANGED <<inflight, arg, ret, collection, memory, short_term>>

\* test_app.py: POST /generate, for a body of bodies and a fault of faults
TestAppRequest(bodies, faults) ==
    /\ Len(history) < MaxOps
    /\ \E body \in bodies :
        \/ /\ ~body.has_prompt
           /\ Refuse("test_app", body, 400)
        \/ /\ body.has_prompt
           /\ body.prompt.kind # "str"
           /\ Refuse("test_app", body, 500)
        \/ /\ body.has_prompt
           /\ body.prompt.kind = "str"
           /\ \E out \in { create_ai_image(body.prompt, rng) },
                 tags \in { LongWordsLower(Split(body.prompt.text)) },
                 label \in { image_type_label(Lower(body.prompt.text)) } :
              LET prompt == body.prompt.text
                  req == Instant
              IN  \E fault \in faults :
                  \/ /\ fault = "draw"
                     /\ rng' \in Interrupted(out)
                     /\ Fail("test_app", body, 500, fault, NoImage, files, now)
                  \/ /\ fault = "write_mesh"
                     /\ rng' = out.rng
                     /\ \E t1 \in Reads(now) :
                          Fail("test_app", body, 500, fault, out.img,
                               WriteImage(files, req, out.img, t1), t1)
                  \/ /\ fault = "write_viewer"
                     /\ rng' = out.rng
                     /\ \E t1 \in Reads(now) :
                          Fail("test_app", body, 500, fault, out.img,
                               WriteModel(WriteImage(files, req, out.img, t1), req, ObjTestApp, t1), t1)
                  \/ /\ fault = "none"
                     /\ \E t1 \in Reads(now) : \E t2 \in Reads(t1) :
                          LET image_path == OutputDir \o "/" \o ImageName(t1)
                              model_path == OutputDir \o "/" \o ModelName(t1)
                              row == ChromaRow(prompt, prompt, image_path, model_path, tags, t2, req)
                              coll == chroma_store(collection, prompt, prompt, image_path,
                                                   model_path, tags, t2, req)
                          IN  /\ rng' = out.rng
                              /\ files' = WriteArtifacts(files, req, out.img, ObjTestApp, label, t1)
                              /\ collection' = coll
                              /\ now' = t2
                              /\ last' = Response("test_app", req, body, 200,
                                                  [image |-> "/output/" \o ImageName(t1),
                                                   model |-> "/output/" \o ModelName(t1),
                                                   viewer |-> "/output/" \o ViewName(t1)],
                                                  coll # collection, Memory(row), <<>>,
                                                  fault, chroma_store_return(row))
                              /\ history' = Append(history, Rendering("test_app", body, 200, out.img))
                              /\ UNCHANGED <<inflight, arg, ret, memory, short_term>>

TestAppGenerate == TestAppRequest(Bodies, Faults)

\* app.py: POST /generate, which calls main.py execute
AppRequest(bodies, faults) ==
    /\ Len(history) < MaxOps
    /\ \E body \in bodies :
        \/ /\ ~body.has_prompt
           /\ Refuse("app", body, 400)
        \/ /\ body.has_prompt
           /\ body.prompt = Str("")
           /\ Refuse("app", body, 200)
        \/ /\ body.has_prompt
           /\ body.prompt.kind # "str"
           /\ Refuse("app", body, 500)
        \/ /\ body.has_prompt
           /\ body.prompt.kind = "str"
           /\ body.prompt # Str("")
           /\ \E refd \in { extract_memory_references(memory, body.prompt.text) } :
              \E expanded_prompt \in
                    { IF refd.found
                      THEN llm_generate(refd.clean \o ", similar to " \o refd.ref)
                      ELSE llm_generate(refd.clean) } :
              \E out \in { create_dragon_forest_image(Str(expanded_prompt), rng) },
                 tags \in { LongWordsLower(Split(body.prompt.text)) } :
              LET user_prompt == body.prompt.text
                  req == Instant
              IN  \E fault \in faults :
                  \/ /\ fault = "draw"
                     /\ rng' \in Interrupted(out)
                     /\ Fail("app", body, 200, fault, NoImage, files, now)
                  \/ /\ fault = "write_mesh"
                     /\ rng' = out.rng
                     /\ \E t1 \in Reads(now) :
                          Fail("app", body, 500, fault, out.img,
                               WriteImage(files, req, out.img, t1), t1)
                  \/ /\ fault = "write_viewer"
                     /\ rng' = out.rng
                     /\ \E t1 \in Reads(now) :
                          Fail("app", body, 500, fault, out.img,
                               WriteModel(WriteImage(files, req, out.img, t1), req,
                                          generate_image_to_3d, t1), t1)
                  \/ /\ fault = "none"
                     /\ \E t1 \in Reads(now) : \E t2 \in Reads(t1) : \E t3 \in Reads(t2) :
                          LET image_path == OutputDir \o "/" \o ImageName(t1)
                              model_path == OutputDir \o "/" \o ModelName(t1)
                              rows == memory_insert(memory, user_prompt, expanded_prompt,
                                                    image_path, model_path, tags, req)
                          IN  /\ rng' = out.rng
                              /\ files' = WriteArtifacts(files, req, out.img, generate_image_to_3d,
                                                         "AI Creative Output", t1)
                              /\ short_term' = short_term_store(short_term, user_prompt,
                                                                expanded_prompt, image_path,
                                                                model_path, tags, t2, req)
                              /\ memory' = rows
                              /\ now' = t3
                              /\ last' = Response("app", req, body, 200,
                                                  [image |-> Basename(image_path),
                                                   model |-> Basename(model_path),
                                                   viewer |-> ViewName(t3)],
                                                  TRUE, Memory(rows[Len(rows)]), refd.searches,
                                                  fault, memory_store_return(rows[Len(rows)]))
                              /\ history' = Append(history, Rendering("app", body, 200, out.img))
                              /\ UNCHANGED <<inflight, arg, ret, collection>>

AppGenerate == AppRequest(Bodies, Faults)

(***************************************************************************)
(* The read paths.  Each runs inside try/except Exception: a failure of    *)
(* the backing store (fails) is logged and the function returns [].        *)
(***************************************************************************)
\* a read path that lets the exception through
ReadPath_propagates(fails, result) ==
    IF fails THEN [raised |-> TRUE, result |-> <<>>] ELSE [raised |-> FALSE, result |-> result]

\* try: ... return memories / except Exception: return []
ReadPath(fails, result) ==
    IF fails THEN [raised |-> FALSE, result |-> <<>>] ELSE [raised |-> FALSE, result |-> result]

\* ChromaMemoryManager.search_similar: the possible results.  The query returns
\* the n_results rows nearest to the embedding of the query text, an order the
\* embedding function decides.
chroma_search_similar(coll, query, limit) ==
    LET n == IF limit < Len(coll) THEN limit ELSE Len(coll)
    IN  { Memories([i \in 1..n |-> coll[q[i]]]) : q \in Arrangements(coll, n) }

Query(op, store, keyword, limit, fails, out) ==
    /\ last' = [op |-> op, store |-> store, keyword |-> keyword, limit |-> limit,
                failed |-> fails, raised |-> out.raised, result |-> out.result]
    /\ UNCHANGED <<inflight, arg, ret, now, rng, collection, memory, short_term, files, history>>

\* a read follows a write
Written == last.op \in { "generate", "store" }

\* test_app.py GET /recent -> ChromaMemoryManager.get_recent
ChromaGetRecent ==
    /\ Written
    /\ \E limit \in 1..MaxLimit, fails \in BOOLEAN :
        Query("get_recent", "chroma", "", limit, fails,
              ReadPath(fails, chroma_get_recent(collection, limit)))

\* test_app.py POST /keyword -> ChromaMemoryManager.keyword_search
ChromaKeywordSearch ==
    /\ Written
    /\ \E keyword \in Keywords, limit \in 1..MaxLimit, fails \in BOOLEAN :
        \E result \in chroma_keyword_search(collection, keyword, limit) :
            Query("keyword_search", "chroma", keyword, limit, fails, ReadPath(fails, result))

\* test_app.py POST /similar -> ChromaMemoryManager.search_similar
ChromaSearchSimilar ==
    /\ Written
    /\ \E query \in Keywords, limit \in 1..MaxLimit, fails \in BOOLEAN :
        \E result \in chroma_search_similar(collection, query, limit) :
            Query("search_similar", "chroma", query, limit, fails, ReadPath(fails, result))

\* MemoryManager.get_recent
MemoryGetRecent ==
    /\ Written
    /\ \E limit \in 1..MaxLimit, fails \in BOOLEAN :
        Query("get_recent", "sqlite", "", limit, fails,
              ReadPath(fails, memory_get_recent(memory, limit)))

\* MemoryManager.search(query), by a caller that wants at most limit records:
\* search has no limit parameter
MemorySearch ==
    /\ Written
    /\ \E keyword \in Keywords, limit \in 1..MaxLimit, fails \in BOOLEAN :
        Query("keyword_search", "sqlite", keyword, limit, fails,
              ReadPath(fails, memory_search(memory, keyword)))

Init ==
    /\ arg = NonStr
    /\ ret = NoCall
    /\ rng \in 0..(RngMod - 1)
    /\ Idle

Next ==
    \/ TestAppGenerate
    \/ AppGenerate
    \/ ChromaGetRecent
    \/ ChromaKeywordSearch
    \/ ChromaSearchSimilar
    \/ MemoryGetRecent
    \/ MemorySearch

Spec == Init /\ [][Next]_vars

(***************************************************************************)
(* SpecRapid: successful requests only, one after the other                *)
(***************************************************************************)
RapidBodies ==
    { [has_prompt |-> TRUE, prompt |-> v] :
        v \in { Str("a blue ice dragon breathing fire"), Str("city like the Dragon") } }

TestAppRapid == TestAppRequest(RapidBodies, { "none" })

AppRapid == AppRequest(RapidBodies, { "none" })

NextRapid == TestAppRapid \/ AppRapid

SpecRapid == Init /\ [][NextRapid]_vars

(***************************************************************************)
(* SpecStore: the memory managers called directly, as test_chroma.py calls *)
(* ChromaMemoryManager                                                     *)
(***************************************************************************)
test_items ==
    << [prompt |-> "green dragon in a magical forest with emerald scales",
        expanded_prompt |-> "a majestic dragon with green emerald scales in an enchanted forest with glowing mushrooms",
        image_path |-> "/home/dennis/Desktop/ai-test/app/output/image_test1.png",
        model_path |-> "/home/dennis/Desktop/ai-test/app/output/model_test1.obj",
        tags |-> <<"dragon", "green", "forest", "magical">>],
       [prompt |-> "blue ice dragon on a mountain peak",
        expanded_prompt |-> "a fearsome blue dragon with ice crystals on a snowy mountain peak",
        image_path |-> "/home/dennis/Desktop/ai-test/app/output/image_test2.png",
        model_path |-> "/home/dennis/Desktop/ai-test/app/output/model_test2.obj",
        tags |-> <<"dragon", "blue", "ice", "mountain">>],
       [prompt |-> "fire dragon breathing flames",
        expanded_prompt |-> "a powerful red dragon breathing bright orange flames against a dark sky",
        image_path |-> "/home/dennis/Desktop/ai-test/app/output/image_test3.png",
        model_path |-> "/home/dennis/Desktop/ai-test/app/output/model_test3.obj",
        tags |-> <<"dragon", "fire", "red", "flames">>] >>

\* the store calls made so far on a store
Calls(store) == Cardinality({ i \in 1..Len(history) : history[i].pipeline = store })

\* what a direct store call leaves in last and in the log of calls
Stored(store, item, stored, row, store_ret) ==
    /\ last' = [op |-> "store", pipeline |-> store, stored |-> stored, row |-> row,
                store_ret |-> store_ret]
    /\ history' = Append(history, Rendering(store, [prompt |-> Str(item.prompt)], 0, NoImage))

\* test_chroma.py: the next turn of `for item in test_items: memory_manager.store(...)`
TestChromaStore ==
    /\ Len(history) < MaxOps
    /\ Calls("test_chroma") < Len(test_items)
    /\ \E item \in { test_items[Calls("test_chroma") + 1] } :
       \E t \in Reads(now) :
         \E row \in { ChromaRow(item.prompt, item.expanded_prompt, item.image_path,
                                item.model_path, item.tags, t, Instant) } :
         \E coll \in { CollectionAdd(collection, row) } :
            /\ collection' = coll
            /\ now' = t
            /\ Stored("test_chroma", item, coll # collection, Memory(row), chroma_store_return(row))
            /\ UNCHANGED <<inflight, arg, ret, rng, memory, short_term, files>>

\* MemoryManager.store called as execute calls it, with the tags of line 824
MemoryManagerStore ==
    /\ Len(history) < MaxOps
    /\ \E i \in 1..Len(test_items) :
       \E item \in { test_items[i] }, t \in Reads(now) :
       \E tags \in { LongWordsLower(Split(item.prompt)) } :
       \E rows \in { memory_insert(memory, item.prompt, item.expanded_prompt, item.image_path,
                                   item.model_path, tags, Instant) } :
            /\ short_term' = short_term_store(short_term, item.prompt, item.expanded_prompt,
                                              item.image_path, item.model_path, tags, t, Instant)
            /\ memory' = rows
            /\ now' = t
            /\ Stored("memory_manager", item, TRUE, Memory(rows[Len(rows)]),
                      memory_store_return(rows[Len(rows)]))
            /\ UNCHANGED <<inflight, arg, ret, rng, collection, files>>

NextStore ==
    \/ TestChromaStore
    \/ MemoryManagerStore
    \/ ChromaGetRecent
    \/ ChromaKeywordSearch
    \/ ChromaSearchSimilar
    \/ MemoryGetRecent
    \/ MemorySearch

SpecStore == Init /\ [][NextStore]_vars

(***************************************************************************)
(* Claims on the pipelines and the memory stores (Spec)                    *)
(***************************************************************************)
\* the store a pipeline writes its records to
StoreOf(pipeline) == IF pipeline = "test_app" THEN "chroma" ELSE "sqlite"

SameRecord(m, row) ==
    /\ m.prompt = row.prompt
    /\ m.expanded_prompt = row.expanded_prompt
    /\ m.image_path = row.image_path
    /\ m.model_path = row.model_path
    /\ m.tags = row.tags

\* C1: a store that succeeded, followed immediately by get_recent(1) on the
\* same store, gives a list of exactly one record, the one just stored.
C1_StoreThenRecent ==
    [][(/\ last.op = "generate"
        /\ last.stored
        /\ last'.op = "get_recent"
        /\ last'.store = StoreOf(last.pipeline)
        /\ ~last'.failed
        /\ last'.limit = 1)
       => (/\ Len(last'.result) = 1
           /\ SameRecord(last'.result[1], last.row))]_vars

C3_RenderDeterministic ==
    \A i, j \in 1..Len(history) :
        (/\ history[i].success
         /\ history[j].success
         /\ history[i].pipeline = history[j].pipeline
         /\ history[i].prompt = history[j].prompt)
        => history[i].img = history[j].img

\* the <ts> of a file name prefix<ts>suffix, or -1
Stamp(name, prefix, suffix) ==
    IF \E t \in 0..MaxTime : name = prefix \o ToString(t) \o suffix
    THEN CHOOSE t \in 0..MaxTime : name = prefix \o ToString(t) \o suffix
    ELSE -1

Answered(prompt) ==
    /\ last.op = "generate"
    /\ last.body.has_prompt
    /\ last.body.prompt = prompt
    /\ last.status = 200
    /\ last.files # NoFiles

\* C4: a request with prompt "a blue ice dragon breathing fire" is rendered as
\* a dragon scene in the blue triple (30, 30, 180) with the flame drawn without
\* a random draw deciding it, and its response names image_<ts>.png,
\* model_<ts>.obj and view_<ts>.html with one <ts>.
C4_BlueIceDragon ==
    Answered(Str("a blue ice dragon breathing fire")) =>
        LET img == history[last.req].img
            ts == Stamp(Basename(last.files.image), "image_", ".png")
        IN  /\ img.image_type = "dragon"
            /\ img.color = <<30, 30, 180>>
            /\ img.flame
            /\ Len(img.draws) = 2
            /\ ts >= 0
            /\ Stamp(Basename(last.files.model), "model_", ".obj") = ts
            /\ Stamp(Basename(last.files.viewer), "view_", ".html") = ts

\* C8: in a successful response each of the three file names is a file this
\* request wrote to the output directory, and the viewer name has the
\* timestamp of the image and model names.
C8_ResponseNamesOwnFiles ==
    (last.op = "generate" /\ last.status = 200 /\ last.files # NoFiles) =>
        /\ \A name \in { last.files.image, last.files.model, last.files.viewer } :
              /\ Basename(name) \in DOMAIN files
              /\ files[Basename(name)].req = last.req
        /\ Stamp(Basename(last.files.viewer), "view_", ".html")
              = Stamp(Basename(last.files.image), "image_", ".png")

Successes(pipeline) ==
    Cardinality({ i \in 1..Len(history) :
                    history[i].pipeline = pipeline /\ history[i].success })

\* C9: every successful generate request creates one memory record: a store
\* holds as many records as its pipeline has answered requests with success.
C9_OneRecordPerSuccess ==
    /\ Len(collection) = Successes("test_app")
    /\ Len(memory) = Successes("app")

IsPrefix(xs, ys) == Len(xs) <= Len(ys) /\ SubSeq(ys, 1, Len(xs)) = xs

\* C10: store only appends: no step changes or removes a record an earlier
\* store created, in the long-term stores or in the session map.
C10_StoreOnlyAppends ==
    [][/\ IsPrefix(collection, collection')
       /\ IsPrefix(memory, memory')
       /\ \A id \in DOMAIN short_term :
             id \in DOMAIN short_term' /\ short_term'[id] = short_term[id]]_vars

(***************************************************************************)
(* Claims on requests in one second (SpecRapid)                            *)
(***************************************************************************)
FileKeys == { "image", "model", "viewer" }

\* this step is a successful request handled wholly inside the second in
\* which the successful request before it was wholly handled
SameSecond ==
    /\ last.op = "generate"
    /\ last.files # NoFiles
    /\ Stamp(Basename(last.files.image), "image_", ".png") = now
    /\ last'.op = "generate"
    /\ last'.files # NoFiles
    /\ last'.req = last.req + 1
    /\ now' = now

C12_MissingPromptIs400 ==
    (/\ last.op = "generate"
     /\ \/ ~last.body.has_prompt
        \/ (last.body.prompt.kind = "str" /\ Strip(last.body.prompt.text) = ""))
    => last.status = 400

\* C13: an exception raised while the image of a request is drawn is answered
\* 500, never 200.
C13_DrawFailureIs500 ==
    (last.op = "generate" /\ last.fault = "draw") => last.status = 500

\* C14: after a request that ended in a failure response the output directory
\* holds no file written by that request.
C14_FailureLeavesNoArtifact ==
    (last.op = "generate" /\ (last.status # 200 \/ last.fault # "none"))
    => \A f \in DOMAIN files : files[f].req # last.req

(***************************************************************************)
(* Claims on the memory managers (SpecStore, Spec)                         *)
(***************************************************************************)
ReadOps == { "get_recent", "keyword_search", "search_similar" }

\* C15: on every read path a failure of the backing store gives the empty
\* list and no exception reaches the caller.
C15_ReadFailureIsEmpty ==
    (last.op \in ReadOps /\ last.failed) => (~last.raised /\ last.result = <<>>)

\* a read failed on a store that holds records
C15_Witness ==
    /\ last.op \in ReadOps
    /\ last.failed
    /\ IF last.store = "chroma" THEN Len(collection) > 0 ELSE Len(memory) > 0

\* C16: get_recent(limit) returns at most limit records, in non-increasing
\* order of timestamp.
C16_RecentCappedAndOrdered ==
    last.op = "get_recent" =>
        /\ Len(last.result) <= last.limit
        /\ \A i, j \in 1..Len(last.result) :
              i < j => last.result[i].timestamp >= last.result[j].timestamp

\* get_recent has returned two records, and has cut a result at its limit
C16_Witness ==
    /\ last.op = "get_recent"
    /\ ~last.failed
    /\ \/ Len(last.result) = 2
       \/ (last.limit = 1 /\ Len(IF last.store = "chroma" THEN collection ELSE memory) = 2)
    /\ Len(collection) = 2 \/ Len(memory) = 2

\* C17: keyword search returns at most limit records.
C17_KeywordCapped ==
    last.op = "keyword_search" => Len(last.result) <= last.limit

\* C18: store returns an id for the record it stored.
C18_StoreReturnsId ==
    (last.op \in { "store", "generate" } /\ last.stored) => last.store_ret # None

\* the tags of a prompt: its tokens longer than 3 characters, lower-cased
TagsOf(prompt) == LongWordsLower(Split(prompt))

\* C19: every stored record has the tags that its own prompt gives.
C19_TagsDerivedFromPrompt ==
    /\ \A i \in 1..Len(collection) :
          JsonLoads(collection[i].tags) = TagsOf(collection[i].prompt)
    /\ \A i \in 1..Len(memory) :
          JsonLoads(memory[i].tags) = TagsOf(memory[i].prompt)

\* the mesh files in the output directory
MeshFiles == { f \in DOMAIN files : Stamp(f, "model_", ".obj") >= 0 }

\* C20: any two generate invocations emit the same mesh bytes.
C20_MeshConstant ==
    \A f, g \in MeshFiles : files[f].text = files[g].text

(***************************************************************************)
(* Claims on the mesh (SpecRapid): the OBJ text as an OBJ reader sees it   *)
(***************************************************************************)
\* the lines of a text
RECURSIVE SplitLines(_)
SplitLines(s) ==
    IF ~Contains(s, "\n") THEN <<s>>
    ELSE LET head == Before(s, "\n")
         IN  <<head>> \o SplitLines(SubSeq(s, Len(head) + 2, Len(s)))

Digits == "0123456789"

DigitOf(c) == (CHOOSE i \in 1..Len(Digits) : SubSeq(Digits, i, i) = c) - 1

\* the number a run of decimal digits writes
RECURSIVE ParseNat(_)
ParseNat(s) ==
    IF Len(s) = 0 THEN 0
    ELSE 10 * ParseNat(SubSeq(s, 1, Len(s) - 1)) + DigitOf(SubSeq(s, Len(s), Len(s)))

\* a coordinate written [-]d.d, in tenths
ParseTenths(s) ==
    LET neg == SubSeq(s, 1, 1) = "-"
        t == IF neg THEN SubSeq(s, 2, Len(s)) ELSE s
        whole == Before(t, ".")
        frac == SubSeq(t, Len(whole) + 2, Len(t))
        v == 10 * ParseNat(whole) + ParseNat(frac)
    IN  IF neg THEN 0 - v ELSE v

\* the token lists of the lines that begin with the keyword key
RECURSIVE Select(_, _)
Select(lines, key) ==
    IF Len(lines) = 0 THEN <<>>
    ELSE LET w == Split(lines[1])
         IN  (IF Len(w) > 0 /\ w[1] = key THEN <<Tail(w)>> ELSE <<>>)
             \o Select(Tail(lines), key)

\* the vertices (in tenths) and the faces of an OBJ text
Mesh(text) ==
    LET lines == SplitLines(text)
        vs == Select(lines, "v")
        fs == Select(lines, "f")
    IN  [v |-> [i \in 1..Len(vs) |-> [k \in 1..Len(vs[i]) |-> ParseTenths(vs[i][k])]],
         f |-> [i \in 1..Len(fs) |-> [k \in 1..Len(fs[i]) |-> ParseNat(fs[i][k])]]]

\* m is 8 vertices and 6 quadrilateral faces with distinct indices in 1..8,
\* each face in one axis-aligned plane
BoxTopology(m) ==
    /\ Len(m.v) = 8
    /\ Len(m.f) = 6
    /\ \A i \in 1..8 : Len(m.v[i]) = 3
    /\ \A i \in 1..6 :
          /\ Len(m.f[i]) = 4
          /\ \A k \in 1..4 : m.f[i][k] \in 1..8
          /\ \A k, l \in 1..4 : m.f[i][k] = m.f[i][l] => k = l
          /\ \E axis \in 1..3 : \A k, l \in 1..4 :
                m.v[m.f[i][k]][axis] = m.v[m.f[i][l]][axis]

\* the vertices of m are the 8 corners of an axis-aligned cube of the given
\* edge length (in tenths)
CubeCorners(m, edge) ==
    /\ \A i, j \in 1..Len(m.v) : m.v[i] = m.v[j] => i = j
    /\ \A axis \in 1..3 :
          \E lo \in { m.v[i][axis] : i \in 1..Len(m.v) } :
              \A i \in 1..Len(m.v) : m.v[i][axis] \in { lo, lo + edge }

Meshes == { Mesh(files[f].text) : f \in { g \in DOMAIN files : Stamp(g, "model_", ".obj") >= 0 } }

\* C21: the mesh is 8 vertex lines and 6 quadrilateral faces with distinct
\* indices in 1..8, every face axis-aligned, and the vertices are the corners
\* of a unit cube (edge length 1.0).
C21_UnitCube ==
    \A m \in Meshes : BoxTopology(m) /\ CubeCorners(m, 10)

\* C21 as the code has it: the same, and the vertices are the corners of the
\* cube from -1.0 to 1.0 on every axis, whose edge length is 2.0.
C21_CubeOfEdgeTwo ==
    \A m \in Meshes :
        /\ BoxTopology(m)
        /\ CubeCorners(m, 20)
        /\ \A i \in 1..8, axis \in 1..3 : m.v[i][axis] \in { -10, 10 }

\* both endpoints have written a mesh file
C21_Witness ==
    /\ \E i, j \in 1..Len(history) :
          /\ history[i].success /\ history[i].pipeline = "test_app"
          /\ history[j].success /\ history[j].pipeline = "app"
    /\ Cardinality(Meshes) = 1
    /\ \E f, g \in DOMAIN files :
          /\ Stamp(f, "model_", ".obj") >= 0
          /\ Stamp(g, "model_", ".obj") >= 0
          /\ files[f].text # files[g].text

(***************************************************************************)
(* Claims on what a request does besides rendering (Spec)                  *)
(***************************************************************************)
\* C22: handling a generate request makes no network call.
C22_NoNetworkCall ==
    last.op = "generate" => last.network = <<>>

(***************************************************************************)
(* Claims on the subject figures (SpecRender)                              *)
(***************************************************************************)
\* C23: the dragon figure and its flame are painted only when the scene type
\* is dragon, and for scene type landscape no subject figure is painted.
C23_FigureOfSceneTypeOnly ==
    Rendered("create_ai_image") =>
        /\ (ret.img.dragon_figure \/ ret.img.flame) => ret.img.image_type = "dragon"
        /\ ret.img.image_type = "landscape" =>
              (~ret.img.dragon_figure /\ ~ret.img.flame /\ ret.img.subject = "none")

\* the subject figure of a scene type other than dragon and landscape
SubjectOf(type) ==
    IF type = "space" THEN "planet" ELSE IF type = "city" THEN "skyline" ELSE "robot"

\* C30: in create_ai_image a prompt of scene type space, city or robot does
\* not contain "dragon", so the guard `"dragon" not in prompt_lower` of these
\* branches never suppresses the subject figure.
C30_DragonGuardNeverSuppresses ==
    (Rendered("create_ai_image") /\ ret.img.image_type \in { "space", "city", "robot" })
    => /\ ~Contains(Lower(arg.text), "dragon")
       /\ ret.img.subject = SubjectOf(ret.img.image_type)

\* a city scene has been rendered with its skyline
C30_Witness ==
    /\ Rendered("create_ai_image")
    /\ ret.img.image_type = "city"
    /\ ret.img.subject = "skyline"

(***************************************************************************)
(* Claims on what the two pipelines write (Spec)                           *)
(***************************************************************************)
\* the label that names a scene type
LabelOf(type) ==
    IF type = "dragon" THEN "Dragon"
    ELSE IF type = "robot" THEN "Robot"
    ELSE IF type = "city" THEN "City"
    ELSE IF type = "space" THEN "Space"
    ELSE "Image"

\* C27: a mesh file written by main.py's pipeline and a mesh file written by
\* test_app.py's handler hold the same bytes.
C27_PipelinesSameMesh ==
    \A f, g \in MeshFiles :
        (/\ history[files[f].req].pipeline = "app"
         /\ history[files[g].req].pipeline = "test_app")
        => files[f].text = files[g].text

(***************************************************************************)
(* The stages of the renderers and the text functions, called on their own *)
(***************************************************************************)
img_height == 600

\* int(base + coef * intensity) with intensity = 1 - (y / img_height * 0.7),
\* in whole numbers: intensity = (10 * img_height - 7 * y) / (10 * img_height).
\* The floating point value and this one truncate to the same integer on
\* every row of the image for every base and coef the renderers use.
Channel(base, coef, y) ==
    (base * 10 * img_height + coef * (10 * img_height - 7 * y)) \div (10 * img_height)

\* test_app.py create_ai_image: the colour of sky row y for a scene type
sky_color(type, y) ==
    IF type = "space"
    THEN <<Channel(10, 10, y), Channel(10, 15, y), Channel(30, 40, y)>>
    ELSE IF type = "city"
    THEN <<Channel(60, 20, y), Channel(60, 15, y), Channel(80, 30, y)>>
    ELSE <<Channel(20, 40, y), Channel(40, 60, y), Channel(60, 90, y)>>

\* main.py create_dragon_forest_image: the colour of sky row y
dragon_forest_sky_color(y) ==
    <<Channel(20, 40, y), Channel(40, 60, y), Channel(60, 90, y)>>

\* the fill colour of mountain i (the same line in both renderers)
mountain_color(i) == <<40 + i * 10, 50 + i * 10, 60 + i * 10>>

\* for i in range(5): the mountains in the order they are painted
Mountains == [k \in 1..5 |-> [i |-> k - 1, fill |-> mountain_color(k - 1)]]

LlmPrompts ==
    PromptStrings \cup
    { "dragon forest", "A DRAGON Forest at dawn", "dragon in forest",
      "magical forest of the dragon in forest", "Magical Forest", "forest",
      "a city in a forest", "robot dragon", "forest robot", "" }

StageArgs ==
    { [kind |-> "sky", text |-> t] :
         t \in { "dragon", "robot", "city", "space", "landscape" } }
    \cup { [kind |-> "mountains", text |-> f] :
              f \in { "create_ai_image", "create_dragon_forest_image" } }
    \cup { [kind |-> "label", text |-> p] : p \in PromptStrings }
    \cup { [kind |-> "llm", text |-> p] : p \in LlmPrompts }

NoStage == [fn |-> "none", out |-> <<>>]

InitStage ==
    /\ arg \in StageArgs
    /\ ret = NoStage
    /\ rng = 0
    /\ Idle

\* the sky loop of create_ai_image: out[y + 1] is the colour of row y
SkyGradient ==
    /\ arg.kind = "sky"
    /\ ret.fn = "none"
    /\ ret' = [fn |-> "sky_gradient",
               out |-> [k \in 1..img_height |-> sky_color(arg.text, k - 1)]]
    /\ UNCHANGED <<inflight, arg, now, rng, collection, memory, short_term, files, last, history>>

\* the sky loop of create_dragon_forest_image
DragonForestSky ==
    /\ arg.kind = "sky"
    /\ ret.fn = "none"
    /\ ret' = [fn |-> "dragon_forest_sky",
               out |-> [k \in 1..img_height |-> dragon_forest_sky_color(k - 1)]]
    /\ UNCHANGED <<inflight, arg, now, rng, collection, memory, short_term, files, last, history>>

\* the mountain loop of either renderer
PaintMountains ==
    /\ arg.kind = "mountains"
    /\ ret.fn = "none"
    /\ ret' = [fn |-> arg.text, out |-> Mountains]
    /\ UNCHANGED <<inflight, arg, now, rng, collection, memory, short_term, files, last, history>>

\* what test_app.py's generate derives from one prompt: the scene type of the
\* image and the label of the viewer page
ViewerLabel ==
    /\ arg.kind = "label"
    /\ ret.fn = "none"
    /\ ret' = [fn |-> "generate",
               out |-> [image_type |-> image_type(Lower(arg.text)),
                        label |-> image_type_label(Lower(arg.text))]]
    /\ UNCHANGED <<inflight, arg, now, rng, collection, memory, short_term, files, last, history>>

LlmGenerate ==
    /\ arg.kind = "llm"
    /\ ret.fn = "none"
    /\ ret' = [fn |-> "LocalLLM.generate", out |-> llm_generate(arg.text)]
    /\ UNCHANGED <<inflight, arg, now, rng, collection, memory, short_term, files, last, history>>

NextStage == SkyGradient \/ DragonForestSky \/ PaintMountains \/ ViewerLabel \/ LlmGenerate

SpecStage == InitStage /\ [][NextStage]_vars

\* C24: in the sky gradient of every scene type each colour channel of row y
\* is no greater than that of row y + 1: darkest at the top, lightest at the
\* horizon.
C24_SkyLightensDownward ==
    ret.fn \in { "sky_gradient", "dragon_forest_sky" } =>
        \A y \in 0..(img_height - 2) : \A c \in 1..3 :
            ret.out[y + 1][c] <= ret.out[y + 2][c]

\* C25: the 5 mountains are painted in index order 0..4 and each colour
\* channel of mountain i + 1 is lower than that of mountain i.
C25_MountainsDarkenWithIndex ==
    ret.fn \in { "create_ai_image", "create_dragon_forest_image" } =>
        /\ Len(ret.out) = 5
        /\ \A k \in 1..5 : ret.out[k].i = k - 1
        /\ \A k \in 1..4 : \A c \in 1..3 : ret.out[k + 1].fill[c] < ret.out[k].fill[c]

\* C26: the label of the viewer page names the scene type the image of the
\* same prompt is rendered with: Dragon, Robot, City or Space exactly for
\* dragon, robot, city or space and Image exactly for landscape.
C26_LabelNamesSceneType ==
    ret.fn = "generate" => ret.out.label = LabelOf(ret.out.image_type)

\* C28: LocalLLM.generate returns the enhancement of the first of "dragon
\* forest", "dragon in forest", "magical forest" the lower-cased prompt
\* contains; if it contains none, the enhancement of the first of "dragon",
\* "robot", "city", "forest" it contains; if none, the prompt followed by the
\* generic suffix.
C28_ExpansionPriority ==
    ret.fn = "LocalLLM.generate" =>
        LET l == Lower(arg.text)
        IN  ret.out =
              IF Contains(l, "dragon forest") THEN EnhDragonForest
              ELSE IF Contains(l, "dragon in forest") THEN EnhDragonForest
              ELSE IF Contains(l, "magical forest") THEN EnhForest
              ELSE IF Contains(l, "dragon") THEN EnhDragon
              ELSE IF Contains(l, "robot") THEN EnhRobot
              ELSE IF Contains(l, "city") THEN EnhCity
              ELSE IF Contains(l, "forest") THEN EnhForest
              ELSE arg.text \o GenericSuffix

\* a prompt with a combination and the single keyword "dragon" has been
\* expanded by the combination
C28_Witness ==
    /\ ret.fn = "LocalLLM.generate"
    /\ Contains(Lower(arg.text), "magical forest")
    /\ Contains(Lower(arg.text), "dragon")
    /\ ret.out = EnhForest

(***************************************************************************)
(* The model browser (model_viewer.py) over the files of concurrent        *)
(* generate requests of test_app.py                                        *)
(***************************************************************************)
\* a write of name at this moment, over what the name held: its modification
\* time is later than that of every file there is
WriteNow(dir, name, file) ==
    LET S == { dir[f].mtime : f \in DOMAIN dir } \cup { 0 }
        mtime == 1 + CHOOSE m \in S : \A n \in S : n <= m
    IN  (name :> ([mtime |-> mtime] @@ file)) @@ dir

EndsWith(s, suffix) ==
    /\ Len(s) >= Len(suffix)
    /\ SubSeq(s, Len(s) - Len(suffix) + 1, Len(s)) = suffix

StartsWith(s, prefix) ==
    /\ Len(s) >= Len(prefix)
    /\ SubSeq(s, 1, Len(prefix)) = prefix

\* sort(key=os.path.getmtime, reverse=True)
RECURSIVE NewestFirst(_, _)
NewestFirst(dir, S) ==
    IF S = {} THEN <<>>
    ELSE LET f == CHOOSE f \in S : \A g \in S : dir[g].mtime <= dir[f].mtime
         IN  <<f>> \o NewestFirst(dir, S \ { f })

\* glob("*.obj"), newest first
get_3d_obj_models(dir) ==
    NewestFirst(dir, { f \in DOMAIN dir : EndsWith(f, ".obj") })

\* glob("image_*.png"), newest first
get_model_images(dir) ==
    NewestFirst(dir, { f \in DOMAIN dir : StartsWith(f, "image_") /\ EndsWith(f, ".png") })

\* the gallery entries display_3d_viewer shows: zip(models, images)
display_3d_viewer(dir) ==
    LET models == get_3d_obj_models(dir)
        images == get_model_images(dir)
        n == IF Len(models) <= Len(images) THEN Len(models) ELSE Len(images)
    IN  [k \in 1..n |-> [model |-> models[k], image |-> images[k]]]

GalleryBody == [has_prompt |-> TRUE, prompt |-> Str("a blue ice dragon breathing fire")]

\* the number of the next request
NextRequest == Len(history) + Cardinality(inflight) + 1

InFlight(req, pc, img, t) == [req |-> req, pc |-> pc, img |-> img, t |-> t]

\* generate, up to image = create_ai_image(prompt)
BeginGenerate ==
    /\ NextRequest <= MaxOps
    /\ \E out \in { create_ai_image(GalleryBody.prompt, rng) } :
          /\ rng' = out.rng
          /\ inflight' = inflight \cup { InFlight(NextRequest, "rendered", out.img, 0) }
    /\ UNCHANGED <<arg, ret, now, collection, memory, short_term, files, last, history>>

\* timestamp = int(time.time())
TakeTimestamp ==
    \E r \in inflight : \E t \in Reads(now) :
        /\ r.pc = "rendered"
        /\ now' = t
        /\ inflight' = (inflight \ { r }) \cup { InFlight(r.req, "stamped", r.img, t) }
        /\ UNCHANGED <<arg, ret, rng, collection, memory, short_term, files, last, history>>

\* image.save(image_path, format='PNG')
SaveImage ==
    \E r \in inflight :
        /\ r.pc = "stamped"
        /\ files' = WriteNow(files, ImageName(r.t), File(r.req, r.img, ""))
        /\ inflight' = (inflight \ { r }) \cup { InFlight(r.req, "image", r.img, r.t) }
        /\ UNCHANGED <<arg, ret, now, rng, collection, memory, short_term, last, history>>

\* with open(model_path, 'w') as f: f.write(...)
SaveModel ==
    \E r \in inflight :
        /\ r.pc = "image"
        /\ files' = WriteNow(files, ModelName(r.t), File(r.req, NoImage, ObjTestApp))
        /\ inflight' = (inflight \ { r }) \cup { InFlight(r.req, "model", r.img, r.t) }
        /\ UNCHANGED <<arg, ret, now, rng, collection, memory, short_term, last, history>>

\* the rest of generate: the viewer page, the record, the response
FinishGenerate ==
    \E r \in inflight : \E t2 \in Reads(now) :
        LET prompt == GalleryBody.prompt.text
            tags == LongWordsLower(Split(prompt))
            image_path == OutputDir \o "/" \o ImageName(r.t)
            model_path == OutputDir \o "/" \o ModelName(r.t)
            row == ChromaRow(prompt, prompt, image_path, model_path, tags, t2, r.req)
            coll == chroma_store(collection, prompt, prompt, image_path, model_path,
                                 tags, t2, r.req)
        IN  /\ r.pc = "model"
            /\ files' = WriteNow(files, ViewName(r.t),
                                 File(r.req, NoImage, image_type_label(Lower(prompt))))
            /\ collection' = coll
            /\ now' = t2
            /\ last' = Response("test_app", r.req, GalleryBody, 200,
                                [image |-> "/output/" \o ImageName(r.t),
                                 model |-> "/output/" \o ModelName(r.t),
                                 viewer |-> "/output/" \o ViewName(r.t)],
                                coll # collection, Memory(row), <<>>,
                                "none", chroma_store_return(row))
            /\ history' = Append(history, Rendering("test_app", GalleryBody, 200, r.img))
            /\ inflight' = inflight \ { r }
            /\ UNCHANGED <<arg, ret, rng, memory, short_term>>

\* the model browser page is opened
DisplayViewer ==
    /\ ret' = [fn |-> "display_3d_viewer", out |-> display_3d_viewer(files)]
    /\ UNCHANGED <<arg, now, rng, collection, memory, short_term, files, last, history, inflight>>

NextGallery ==
    \/ BeginGenerate
    \/ TakeTimestamp
    \/ SaveImage
    \/ SaveModel
    \/ FinishGenerate
    \/ DisplayViewer

SpecGallery == Init /\ [][NextGallery]_vars

\* C29: every gallery entry of the model browser pairs model_<ts>.obj with
\* the image_<ts>.png of the same <ts>, for the files that generate requests
\* have left once all of them have returned, also when the image and model
\* writes of two requests interleaved.
C29_GalleryPairsSameStamp ==
    (/\ ret.fn = "display_3d_viewer"
     /\ inflight = {}
     /\ ret.out = display_3d_viewer(files))
    => \A k \in 1..Len(ret.out) :
          Stamp(ret.out[k].model, "model_", ".obj") = Stamp(ret.out[k].image, "image_", ".png")

====
